---------------------------- MODULE Spec2Model ----------------------------
(***************************************************************************)
(* The map dashboard of the ocean-hazard admin portal                      *)
(* (src/src/components/InteractiveMapDashboard.tsx): the report store, the *)
(* filter state, the timeline cursor with its replay timer, the filter     *)
(* evaluator and the two grid bucketing engines; with them the delivery    *)
(* history of the notification center (NotificationCenter.tsx) and the     *)
(* bulk status action of the report management screen                      *)
(* (HazardReportManagement.tsx).                                           *)
(*                                                                         *)
(* Encodings.  Instants are Unix milliseconds.  A JavaScript string is a   *)
(* sequence of one-character strings.  A report's timestamp string is the  *)
(* record [iso |-> TRUE, ms |-> n] when it is an ISO-8601 rendering of the *)
(* instant n, and [iso |-> FALSE, ms |-> 0] when Date cannot parse it.     *)
(* Coordinates are in thousandths of a degree, so that the grid sizes 0.06 *)
(* and 0.25 and the cell centres are integers.  A handler is one action:   *)
(* the state updates it queues, the render that follows and the effects    *)
(* of that render.                                                         *)
(***************************************************************************)
EXTENDS Integers, Sequences, FiniteSets, TLC

VARIABLES
    reports,     \* the `reports` prop: the report store
    filters,     \* useState<ActiveFilters>
    timeline,    \* useState<number | undefined>: the timeline cursor
    isPlaying,   \* useState(false)
    mounted,     \* useState(false): set once Leaflet has loaded
    intervals,   \* the window.setInterval timers that have not been cleared
    cleanupId,   \* the interval id the play-loop effect's cleanup will clear (0: none)
    emitted,     \* the last arguments of onFilterChange / onTimelineChange
    thrown,      \* whether the last handler ended in an uncaught exception
    unmounted,   \* the component has been torn down
    notif,       \* NotificationCenter: title, confirm, history, pending timeouts
    mgmt         \* HazardReportManagement: data, selected, bulk calls in flight

\* the variables of the map dashboard
dashboard == <<reports, filters, timeline, isPlaying, mounted, intervals,
               cleanupId, emitted, thrown, unmounted>>

vars == <<reports, filters, timeline, isPlaying, mounted, intervals, cleanupId,
          emitted, thrown, unmounted, notif, mgmt>>

---------------------------------------------------------------------------
(* Bounds of the model. *)

\* longest report store of the filter and bucketing specifications
MaxReports == 3
\* alerts sent from the notification center
MaxSends == 2
\* reports listed on the report management screen
MaxBulkReports == 2
\* bulk status actions awaiting their onStatusChange promise
MaxPending == 1
\* longest report store of the tag specification
MaxTagged == 1
\* longest report store of the replay specifications
MaxReplayReports == 2
\* report timestamps are whole hours 0 .. MaxHours after the epoch
MaxHours == 2
\* longest tag query typed
MaxQueryLen == 3
\* report timestamps of the replay specifications: the epoch, ShortSpan
\* milliseconds after it, and the whole hours 1 .. MaxReplayHours
MaxReplayHours == 1
ShortSpan == 251

---------------------------------------------------------------------------
(* JavaScript values. *)

\* `undefined` in a number-typed slot (timeStart?, timeEnd?, timeline)
Undefined == -1
\* NaN, the getTime() of an Invalid Date
NaN == -2

IsNumber(x) == x # Undefined /\ x # NaN

\* JavaScript truthiness of a number | undefined: 0, NaN and undefined are falsy
Truthy(x) == x # Undefined /\ x # NaN /\ x # 0

\* a < b and a > b of JavaScript numbers: false when either side is NaN
JsLess(a, b) == a # NaN /\ b # NaN /\ a < b
JsGreater(a, b) == a # NaN /\ b # NaN /\ a > b

\* new Date(r.timestamp).getTime()
DateGetTime(ts) == IF ts.iso THEN ts.ms ELSE NaN

\* Number.isFinite
IsFinite(x) == x # NaN /\ x # Undefined

Max2(a, b) == IF a >= b THEN a ELSE b
Min2(a, b) == IF a <= b THEN a ELSE b

\* String.prototype.toLowerCase, one character
LowerChar(c) == CASE c = "A" -> "a" [] c = "B" -> "b" [] OTHER -> c
ToLowerCase(s) == [i \in 1..Len(s) |-> LowerChar(s[i])]

\* the characters the regular expression /[\,\s]+/ matches
IsSeparator(c) == c = "," \/ c = " "

\* String.prototype.trim().length > 0
TrimNonEmpty(s) == \E i \in 1..Len(s) : s[i] # " "

---------------------------------------------------------------------------
(* The temporal domain. *)

NullDomain == [isNull |-> TRUE, min |-> Undefined, max |-> Undefined]

ScanStepCountsInvalid(acc, t) ==
    LET u == IF IsFinite(t) THEN t ELSE 0
    IN IF ~acc.seen THEN [seen |-> TRUE, min |-> u, max |-> u]
       ELSE [seen |-> TRUE,
             min |-> IF u < acc.min THEN u ELSE acc.min,
             max |-> IF u > acc.max THEN u ELSE acc.max]

\* one iteration of the loop of timeDomain: t = new Date(r.timestamp).getTime();
\* if (!isFinite(t)) continue; min = Math.min(min, t); max = Math.max(max, t).
\* seen = FALSE stands for min = Infinity, max = -Infinity
ScanStep(acc, t) ==
    IF ~IsFinite(t) THEN acc
    ELSE IF ~acc.seen THEN [seen |-> TRUE, min |-> t, max |-> t]
    ELSE [seen |-> TRUE,
          min |-> IF t < acc.min THEN t ELSE acc.min,
          max |-> IF t > acc.max THEN t ELSE acc.max]

RECURSIVE ScanDomain(_, _)
\* the loop of timeDomain over the first n reports (each accumulator is
\* computed once, then handed to the next iteration)
ScanDomain(rs, n) ==
    IF n = 0 THEN [seen |-> FALSE, min |-> 0, max |-> 0]
    ELSE CHOOSE next \in {ScanStep(acc, DateGetTime(rs[n].timestamp)) :
                              acc \in {ScanDomain(rs, n - 1)}} : TRUE

\* if (!isFinite(min) || !isFinite(max)) return null; return { min, max }
DomainOf(acc) ==
    IF ~acc.seen THEN NullDomain
    ELSE [isNull |-> FALSE, min |-> acc.min, max |-> acc.max]

TimeDomain(rs) ==
    IF Len(rs) = 0 THEN NullDomain
    ELSE CHOOSE d \in {DomainOf(acc) : acc \in {ScanDomain(rs, Len(rs))}} : TRUE

timeDomain == TimeDomain(reports)

---------------------------------------------------------------------------
(* The filter evaluator. *)

RECURSIVE SplitFrom(_, _, _)
\* split(/[\,\s]+/) followed by filter(Boolean): the maximal runs of
\* non-separator characters of s from position i on, cur being the run open at i
SplitFrom(s, i, cur) ==
    IF i > Len(s) THEN (IF cur = <<>> THEN <<>> ELSE <<cur>>)
    ELSE IF IsSeparator(s[i])
         THEN (IF cur = <<>> THEN <<>> ELSE <<cur>>) \o SplitFrom(s, i + 1, <<>>)
         ELSE SplitFrom(s, i + 1, Append(cur, s[i]))

Needles(q) == SplitFrom(ToLowerCase(q), 1, <<>>)

Includes(seq, x) == \E i \in 1..Len(seq) : seq[i] = x

TagsMatchSubstring(r, q) ==
    IF Len(q) > 0 /\ TrimNonEmpty(q)
    THEN LET needles == Needles(q)
             hay == [i \in 1..Len(r.tags) |-> ToLowerCase(r.tags[i])]
         IN Len(needles) > 0 =>
                \A k \in 1..Len(needles) : \E i \in 1..Len(hay) :
                    \E j \in 0..(Len(hay[i]) - Len(needles[k])) :
                        SubSeq(hay[i], j + 1, j + Len(needles[k])) = needles[k]
    ELSE TRUE

TagsMatchFirstNeedle(r, q) ==
    IF Len(q) > 0 /\ TrimNonEmpty(q)
    THEN LET needles == Needles(q)
             hay == [i \in 1..Len(r.tags) |-> ToLowerCase(r.tags[i])]
         IN Len(needles) > 0 => Includes(hay, needles[1])
    ELSE TRUE

\* the tag test of the filter callback
TagsMatch(r, q) ==
    IF Len(q) > 0 /\ TrimNonEmpty(q)
    THEN LET needles == Needles(q)
             hay == [i \in 1..Len(r.tags) |-> ToLowerCase(r.tags[i])]
         IN Len(needles) > 0 =>
                \A k \in 1..Len(needles) : Includes(hay, needles[k])
    ELSE TRUE

\* if (filters.hazardType !== "all" && r.type !== filters.hazardType) return false
TypePass(f, r) == ~(f.hazardType # "all" /\ r.type # f.hazardType)

StatusPassAsSource(f, r) == ~(f.status # "all" /\ r.source # f.status)
\* if (filters.status !== "all" && r.status !== filters.status) return false
StatusPass(f, r) == ~(f.status # "all" /\ r.status # f.status)

\* if (filters.source !== "all" && r.source !== filters.source) return false
SourcePass(f, r) == ~(f.source # "all" /\ r.source # f.source)

\* if (filters.timeStart && t0 < filters.timeStart) return false
TimeStartPass(f, t0) == ~(Truthy(f.timeStart) /\ JsLess(t0, f.timeStart))

TimeEndPassExclusive(f, t0) ==
    ~(Truthy(f.timeEnd) /\ (JsGreater(t0, f.timeEnd) \/ t0 = f.timeEnd))
\* if (filters.timeEnd && t0 > filters.timeEnd) return false
TimeEndPass(f, t0) == ~(Truthy(f.timeEnd) /\ JsGreater(t0, f.timeEnd))

\* if (timeline != null && t0 > timeline) return false
CursorPass(tl, t0) == ~(tl # Undefined /\ JsGreater(t0, tl))

\* the callback of reports.filter
Keep(r, f, tl) ==
    LET t0 == DateGetTime(r.timestamp)
    IN /\ TypePass(f, r)
       /\ StatusPass(f, r)
       /\ SourcePass(f, r)
       /\ TimeStartPass(f, t0)
       /\ TimeEndPass(f, t0)
       /\ CursorPass(tl, t0)
       /\ TagsMatch(r, f.tagsQuery)

FilterReports(rs, f, tl) == SelectSeq(rs, LAMBDA r : Keep(r, f, tl))

filteredReports == FilterReports(reports, filters, timeline)

---------------------------------------------------------------------------
(* The spatial bucketing engines.  gridSize is in thousandths of a degree. *)

\* const gridSize = 0.25 of heatPoints
HeatGrid == 250
\* const gridSize = 0.06 of renderClusteredMarkers
ClusterGrid == 60

\* Math.floor(x / gridSize)
Cell(x, grid) == x \div grid
\* (g + 0.5) * gridSize
Centre(g, grid) == g * grid + grid \div 2

\* the Map key `${gx}:${gy}`
KeyOf(r, grid) == <<Cell(r.lng, grid), Cell(r.lat, grid)>>

IndexOfKey(bs, key) ==
    IF \E i \in 1..Len(bs) : bs[i].key = key
    THEN CHOOSE i \in 1..Len(bs) : bs[i].key = key
    ELSE 0

RECURSIVE HeatBuckets(_, _)
\* the first loop of heatPoints over the first n reports: the Map's entries,
\* in insertion order
HeatBuckets(rs, n) ==
    IF n = 0 THEN <<>>
    ELSE LET bs == HeatBuckets(rs, n - 1)
             r == rs[n]
             key == KeyOf(r, HeatGrid)
             i == IndexOfKey(bs, key)
         IN IF i # 0 THEN [bs EXCEPT ![i].count = @ + 1]
            ELSE Append(bs, [key |-> key,
                             lat |-> Centre(key[2], HeatGrid),
                             lng |-> Centre(key[1], HeatGrid),
                             count |-> 1])

RECURSIVE MaxCount(_, _)
\* let max = 0; for (const b of buckets.values()) max = Math.max(max, b.count)
MaxCount(bs, n) == IF n = 0 THEN 0 ELSE Max2(MaxCount(bs, n - 1), bs[n].count)

HeatPointsOverTotal(heatmap, rs) ==
    IF ~heatmap THEN <<>>
    ELSE LET bs == HeatBuckets(rs, Len(rs))
         IN IF Len(rs) = 0 THEN <<>>
            ELSE [i \in 1..Len(bs) |->
                     [lat |-> bs[i].lat, lng |-> bs[i].lng,
                      weight |-> [num |-> bs[i].count, den |-> Len(rs)]]]

\* The heat points of a filtered sequence.  weight = b.count / max is kept
\* as the fraction num / den.
HeatPoints(heatmap, rs) ==
    IF ~heatmap THEN <<>>
    ELSE LET bs == HeatBuckets(rs, Len(rs))
             max == MaxCount(bs, Len(bs))
         IN IF max = 0 THEN <<>>
            ELSE [i \in 1..Len(bs) |->
                     [lat |-> bs[i].lat, lng |-> bs[i].lng,
                      weight |-> [num |-> bs[i].count, den |-> max]]]

heatPoints == HeatPoints(filters.heatmap, filteredReports)

RECURSIVE ClusterBucketsEmptyStart(_, _)
ClusterBucketsEmptyStart(rs, n) ==
    IF n = 0 THEN <<>>
    ELSE LET bs == ClusterBucketsEmptyStart(rs, n - 1)
             r == rs[n]
             key == KeyOf(r, ClusterGrid)
             i == IndexOfKey(bs, key)
         IN IF i = 0
            THEN Append(bs, [key |-> key,
                             lat |-> Centre(key[2], ClusterGrid),
                             lng |-> Centre(key[1], ClusterGrid),
                             items |-> <<>>])
            ELSE [bs EXCEPT ![i].items = Append(@, r)]

RECURSIVE ClusterBuckets(_, _)
\* the first loop of renderClusteredMarkers over the first n reports
ClusterBuckets(rs, n) ==
    IF n = 0 THEN <<>>
    ELSE LET bs == ClusterBuckets(rs, n - 1)
             r == rs[n]
             key == KeyOf(r, ClusterGrid)
             i == IndexOfKey(bs, key)
         IN IF i = 0
            THEN Append(bs, [key |-> key,
                             lat |-> Centre(key[2], ClusterGrid),
                             lng |-> Centre(key[1], ClusterGrid),
                             items |-> <<r>>])
            ELSE [bs EXCEPT ![i].items = Append(@, r)]

\* the key order of the `counts` object literal of dominantStatusIn
StatusOrder == <<"unverified", "under_review", "verified", "false_alarm">>

CountStatus(items, s) == Cardinality({i \in 1..Len(items) : items[i].status = s})

RECURSIVE ReduceDominantLastWins(_, _)
ReduceDominantLastWins(items, n) ==
    IF n = 1 THEN StatusOrder[1]
    ELSE LET a == ReduceDominantLastWins(items, n - 1)
             b == StatusOrder[n]
         IN IF CountStatus(items, a) > CountStatus(items, b) THEN a ELSE b

RECURSIVE ReduceDominant(_, _)
\* Object.keys(counts).reduce((a, b) => counts[a] >= counts[b] ? a : b)
\* over the first n keys
ReduceDominant(items, n) ==
    IF n = 1 THEN StatusOrder[1]
    ELSE LET a == ReduceDominant(items, n - 1)
             b == StatusOrder[n]
         IN IF CountStatus(items, a) >= CountStatus(items, b) THEN a ELSE b

dominantStatusIn(items) == ReduceDominant(items, Len(StatusOrder))

statusToColor(s) ==
    CASE s = "unverified" -> "#f59e0b"
      [] s = "under_review" -> "#0ea5e9"
      [] s = "verified" -> "#10b981"
      [] s = "false_alarm" -> "#ef4444"

StatusIconColorOfPopupHeader(s) ==
    CASE s = "unverified" -> "#d97706"
      [] s = "under_review" -> "#0284c7"
      [] s = "verified" -> "#059669"
      [] s = "false_alarm" -> "#e11d48"

\* the hex colours handed to make() in statusIcons
StatusIconColor(s) ==
    CASE s = "unverified" -> "#f59e0b"
      [] s = "under_review" -> "#0ea5e9"
      [] s = "verified" -> "#10b981"
      [] s = "false_alarm" -> "#ef4444"

\* style={{ backgroundColor: statusToColor(s) }} of a legend entry
LegendColor(s) == statusToColor(s)

\* backgroundColor: statusToColor(r.status) of the bullets of a cluster
\* popup, one per report of bucket.items.slice(0, 10)
PopupBulletColors(b) ==
    [j \in 1..Min2(10, Len(b.items)) |-> statusToColor(b.items[j].status)]

Ids(items) == [i \in 1..Len(items) |-> items[i].id]

BucketMarkerPairAlone(b) ==
    LET count == Len(b.items)
    IN IF count <= 2
       THEN [kind |-> "marker", key |-> b.key, members |-> Ids(b.items),
             lat |-> b.items[1].lat, lng |-> b.items[1].lng,
             color |-> StatusIconColor(b.items[1].status),
             label |-> 1, size |-> 14,
             popup |-> Ids(b.items)]
       ELSE [kind |-> "cluster", key |-> b.key, members |-> Ids(b.items),
             lat |-> b.lat, lng |-> b.lng,
             color |-> statusToColor(dominantStatusIn(b.items)),
             label |-> count, size |-> 24 + Min2(18, count),
             popup |-> Ids(SubSeq(b.items, 1, Min2(10, count)))]

\* one element of `items`: an individual Marker for a bucket of one report,
\* a cluster Marker otherwise
BucketMarker(b) ==
    LET count == Len(b.items)
    IN IF count = 1
       THEN [kind |-> "marker", key |-> b.key, members |-> Ids(b.items),
             lat |-> b.items[1].lat, lng |-> b.items[1].lng,
             color |-> StatusIconColor(b.items[1].status),
             label |-> 1, size |-> 14,
             popup |-> Ids(b.items)]
       ELSE [kind |-> "cluster", key |-> b.key, members |-> Ids(b.items),
             lat |-> b.lat, lng |-> b.lng,
             color |-> statusToColor(dominantStatusIn(b.items)),
             label |-> count, size |-> 24 + Min2(18, count),
             popup |-> Ids(SubSeq(b.items, 1, Min2(10, count)))]

\* renderClusteredMarkers: null (no marker) while Leaflet is not loaded
renderClusteredMarkers(L, rs) ==
    IF ~L THEN <<>>
    ELSE LET bs == ClusterBuckets(rs, Len(rs))
         IN [i \in 1..Len(bs) |-> BucketMarker(bs[i])]

\* the markers layer with clustering off: one Marker per filtered report
PlainMarkers(L, rs) ==
    IF ~L THEN <<>>
    ELSE [i \in 1..Len(rs) |->
             [kind |-> "marker", key |-> KeyOf(rs[i], ClusterGrid),
              members |-> <<rs[i].id>>,
              lat |-> rs[i].lat, lng |-> rs[i].lng,
              color |-> StatusIconColor(rs[i].status),
              label |-> 1, size |-> 14, popup |-> <<rs[i].id>>]]

markers ==
    IF filters.clustering THEN renderClusteredMarkers(mounted, filteredReports)
    ELSE PlainMarkers(mounted, filteredReports)

\* the heat layer as drawn: needs filters.heatmap and the loaded library
heatLayer == IF filters.heatmap /\ mounted THEN heatPoints ELSE <<>>

---------------------------------------------------------------------------
(* The component's state and its effects.  A state record s holds one      *)
(* value per variable.                                                     *)

State ==
    [reports |-> reports, filters |-> filters, timeline |-> timeline,
     isPlaying |-> isPlaying, mounted |-> mounted, intervals |-> intervals,
     cleanupId |-> cleanupId, emitted |-> emitted, thrown |-> thrown,
     unmounted |-> unmounted]

Becomes(s) ==
    \E t \in {s} :
        /\ reports' = t.reports
        /\ filters' = t.filters
        /\ timeline' = t.timeline
        /\ isPlaying' = t.isPlaying
        /\ mounted' = t.mounted
        /\ intervals' = t.intervals
        /\ cleanupId' = t.cleanupId
        /\ emitted' = t.emitted
        /\ thrown' = t.thrown
        /\ unmounted' = t.unmounted
        /\ UNCHANGED <<notif, mgmt>>

\* step={60 * 60 * 1000} of both sliders
SliderStep == 60 * 60 * 1000

\* the initial value of useState<ActiveFilters>
InitialFilters(d) ==
    [hazardType |-> "all", status |-> "all", source |-> "all",
     timeStart |-> d.min, timeEnd |-> d.max,
     heatmap |-> FALSE, clustering |-> TRUE, tagsQuery |-> <<>>]

SyncFiltersSwapped(f, d, depsChanged) ==
    IF depsChanged /\ ~d.isNull
    THEN [f EXCEPT !.timeStart = d.max, !.timeEnd = d.min]
    ELSE f

\* the effect on [timeDomain?.min, timeDomain?.max]: the filters it leaves
SyncFilters(f, d, depsChanged) ==
    IF depsChanged /\ ~d.isNull
    THEN [f EXCEPT !.timeStart = d.min, !.timeEnd = d.max]
    ELSE f

SyncTimelineKeepsCursor(tl, d, depsChanged) == tl

\* the effect on [timeDomain?.min, timeDomain?.max]: the cursor it leaves
SyncTimeline(tl, d, depsChanged) ==
    IF depsChanged /\ ~d.isNull THEN d.max ELSE tl

\* const step = Math.max(1, Math.floor((timeDomain.max - timeDomain.min) / 120))
PlayStep(d) == Max2(1, (d.max - d.min) \div 120)

\* the guard of the play-loop effect: it schedules a timer only past this
PlayLoopRunsWithoutDomain(pl, d, tl) == pl /\ tl # Undefined
PlayLoopRuns(pl, d, tl) == pl /\ ~d.isNull /\ tl # Undefined

\* window.setInterval's result: an id no live timer has
FreshId(ivs) ==
    CHOOSE n \in 1..(Cardinality(ivs) + 1) :
        /\ \A iv \in ivs : iv.id # n
        /\ \A m \in 1..(n - 1) : \E iv \in ivs : iv.id = m

ClearIntervalLeavesTimer(ivs, id) == ivs
\* the cleanup of the play-loop effect: window.clearInterval(id)
ClearInterval(ivs, id) == {iv \in ivs : iv.id # id}

PlayLoopEffectNoCleanup(ivs, cid, pl, d, tl) ==
    IF PlayLoopRuns(pl, d, tl)
    THEN LET id == FreshId(ivs)
         IN [intervals |-> ivs \cup
                           {[id |-> id, step |-> PlayStep(d),
                             min |-> d.min, max |-> d.max]},
             cleanupId |-> id]
    ELSE [intervals |-> ivs, cleanupId |-> 0]

\* The play-loop effect after a render whose dependencies [isPlaying,
\* timeDomain, timeline] changed: the previous run's cleanup, then the body.
\* A timer carries what its callback closes over.
PlayLoopEffect(ivs, cid, pl, d, tl) ==
    LET cleared == ClearInterval(ivs, cid)
    IN IF PlayLoopRuns(pl, d, tl)
       THEN LET id == FreshId(cleared)
            IN [intervals |-> cleared \cup
                              {[id |-> id, step |-> PlayStep(d),
                                min |-> d.min, max |-> d.max]},
                cleanupId |-> id]
       ELSE [intervals |-> cleared, cleanupId |-> 0]

EmitFiltersOnly(e, oldF, f, oldTl, tl) ==
    [filters |-> IF f # oldF THEN f ELSE e.filters, timeline |-> e.timeline]

\* the effects on [filters] and [timeline]: onFilterChange?.(filters) and
\* if (timeline != null) onTimelineChange?.(timeline)
Emit(e, oldF, f, oldTl, tl) ==
    [filters |-> IF f # oldF THEN f ELSE e.filters,
     timeline |-> IF tl # oldTl /\ tl # Undefined THEN tl ELSE e.timeline]

\* The component after a handler has set the store to rs, the filters to f,
\* the cursor to tl and the playing flag to pl: the renders that follow and
\* their effects, run until nothing changes.  newStore: the `reports` prop is
\* a new array, so the memoised timeDomain is a new object.
RenderWith(s, rs, newStore, f, tl, pl, oldD, d) ==
    LET sync == d.min # oldD.min \/ d.max # oldD.max
        f2 == SyncFilters(f, d, sync)
        tl2 == SyncTimeline(tl, d, sync)
        loopDeps == pl # s.isPlaying \/ newStore \/ tl2 # s.timeline
        loop == IF loopDeps
                THEN PlayLoopEffect(s.intervals, s.cleanupId, pl, d, tl2)
                ELSE [intervals |-> s.intervals, cleanupId |-> s.cleanupId]
    IN [reports |-> rs, filters |-> f2, timeline |-> tl2, isPlaying |-> pl,
        mounted |-> s.mounted, intervals |-> loop.intervals,
        cleanupId |-> loop.cleanupId,
        emitted |-> Emit(s.emitted, s.filters, f2, s.timeline, tl2),
        thrown |-> "none", unmounted |-> s.unmounted]

\* the memoised timeDomain of the store before (oldD) and after (d), each
\* computed once
Render(s, rs, newStore, f, tl, pl) ==
    CHOOSE r \in {RenderWith(s, rs, newStore, f, tl, pl, oldD, d) :
                     oldD \in {TimeDomain(s.reports)}, d \in {TimeDomain(rs)}} :
        TRUE

\* The component once constructed over the store rs and its mount effects
\* have run.
Mount(rs) ==
    LET d == TimeDomain(rs)
        f == InitialFilters(d)
    IN [reports |-> rs, filters |-> f, timeline |-> d.max, isPlaying |-> FALSE,
        mounted |-> FALSE, intervals |-> {}, cleanupId |-> 0,
        emitted |-> [filters |-> f, timeline |-> d.max],
        thrown |-> "none", unmounted |-> FALSE]

\* the values either slider can report: min + k * step, within [min, max]
SliderValues(d) ==
    IF d.isNull THEN {}
    ELSE {d.min + k * SliderStep : k \in 0..((d.max - d.min) \div SliderStep)}

\* the SelectItems of the type and source selects
uniqueTypes(rs) == {rs[i].type : i \in 1..Len(rs)}
uniqueSources(rs) == {rs[i].source : i \in 1..Len(rs)}

---------------------------------------------------------------------------
(* The handlers, as functions of the state record. *)

SetFilters(s, f) == Render(s, s.reports, FALSE, f, s.timeline, s.isPlaying)

SetTimelinePauses(s, tl) == Render(s, s.reports, FALSE, s.filters, tl, FALSE)

SetTimeline(s, tl) == Render(s, s.reports, FALSE, s.filters, tl, s.isPlaying)

OnPlayClickRewinds(s) ==
    Render(s, s.reports, FALSE, s.filters,
           IF s.isPlaying THEN s.timeline ELSE TimeDomain(s.reports).min,
           ~s.isPlaying)

\* onClick={() => setIsPlaying((p) => !p)}
OnPlayClick(s) ==
    Render(s, s.reports, FALSE, s.filters, s.timeline, ~s.isPlaying)

OnTickWrapsAround(s, iv) ==
    IF s.timeline = Undefined
    THEN Render(s, s.reports, FALSE, s.filters, iv.min, s.isPlaying)
    ELSE IF s.timeline >= iv.max
    THEN Render(s, s.reports, FALSE, s.filters, iv.min, s.isPlaying)
    ELSE LET next == s.timeline + iv.step
         IN IF next >= iv.max
            THEN Render(s, s.reports, FALSE, s.filters, iv.max, FALSE)
            ELSE Render(s, s.reports, FALSE, s.filters, next, s.isPlaying)

OnTickKeepsPlaying(s, iv) ==
    IF s.timeline = Undefined
    THEN Render(s, s.reports, FALSE, s.filters, iv.min, s.isPlaying)
    ELSE LET next == s.timeline + iv.step
         IN IF next >= iv.max
            THEN Render(s, s.reports, FALSE, s.filters, iv.max, s.isPlaying)
            ELSE Render(s, s.reports, FALSE, s.filters, next, s.isPlaying)

OnTickOvershoot(s, iv) ==
    IF s.timeline = Undefined
    THEN Render(s, s.reports, FALSE, s.filters, iv.min, s.isPlaying)
    ELSE LET next == s.timeline + iv.step
         IN IF next >= iv.max
            THEN Render(s, s.reports, FALSE, s.filters, next, FALSE)
            ELSE Render(s, s.reports, FALSE, s.filters, next, s.isPlaying)

\* the updater the interval callback hands to setTimeline, with the
\* setIsPlaying(false) it issues
OnTick(s, iv) ==
    IF s.timeline = Undefined
    THEN Render(s, s.reports, FALSE, s.filters, iv.min, s.isPlaying)
    ELSE LET next == s.timeline + iv.step
         IN IF next >= iv.max
            THEN Render(s, s.reports, FALSE, s.filters, iv.max, FALSE)
            ELSE Render(s, s.reports, FALSE, s.filters, next, s.isPlaying)

\* new Date(r.timestamp).toISOString() throws a RangeError on an Invalid Date
ExportCSVThrows(rs) == \E i \in 1..Len(rs) : ~IsFinite(DateGetTime(rs[i].timestamp))

---------------------------------------------------------------------------
(* The actions. *)

Alive == ~unmounted

SetHazardType(v) ==
    /\ Alive /\ v # filters.hazardType
    /\ Becomes(SetFilters(State, [filters EXCEPT !.hazardType = v]))

SetStatus(v) ==
    /\ Alive /\ v # filters.status
    /\ Becomes(SetFilters(State, [filters EXCEPT !.status = v]))

SetSource(v) ==
    /\ Alive /\ v # filters.source
    /\ Becomes(SetFilters(State, [filters EXCEPT !.source = v]))

ToggleHeatmap ==
    /\ Alive
    /\ Becomes(SetFilters(State, [filters EXCEPT !.heatmap = ~@]))

ToggleClustering ==
    /\ Alive
    /\ Becomes(SetFilters(State, [filters EXCEPT !.clustering = ~@]))

\* the tags Input's onChange after a key press
TypeTagChar(c) ==
    /\ Alive /\ Len(filters.tagsQuery) < MaxQueryLen
    /\ Becomes(SetFilters(State, [filters EXCEPT !.tagsQuery = Append(@, c)]))

\* the tags Input's onChange after a backspace
DeleteTagChar ==
    /\ Alive /\ Len(filters.tagsQuery) > 0
    /\ Becomes(SetFilters(State,
           [filters EXCEPT !.tagsQuery = SubSeq(@, 1, Len(@) - 1)]))

\* The Slider of @/components/ui/slider is not among these sources; it is
\* taken to report the values of its two thumbs in ascending order.
SliderSorted(lo, hi) == lo <= hi

\* the time range Slider's onValueChange
SetTimeRange(lo, hi) ==
    /\ Alive /\ ~timeDomain.isNull
    /\ SliderSorted(lo, hi)
    /\ <<lo, hi>> # <<filters.timeStart, filters.timeEnd>>
    /\ Becomes(SetFilters(State, [filters EXCEPT !.timeStart = lo, !.timeEnd = hi]))

\* the timeline Slider's onValueChange
Scrub(t0) ==
    /\ Alive /\ ~timeDomain.isNull
    /\ t0 # timeline
    /\ Becomes(SetTimeline(State, t0))

JumpLatestStops ==
    /\ Alive /\ ~timeDomain.isNull
    /\ Becomes(Render(State, reports, FALSE, filters, timeDomain.max, FALSE))

\* the jump-to-latest Button
JumpLatest ==
    /\ Alive /\ ~timeDomain.isNull
    /\ Becomes(SetTimeline(State, timeDomain.max))

TogglePlayWithoutDomain ==
    /\ Alive
    /\ Becomes(OnPlayClick(State))

\* the play / pause Button
TogglePlay ==
    /\ Alive /\ ~timeDomain.isNull
    /\ Becomes(OnPlayClick(State))

\* the callback of an interval that has not been cleared fires; React drops
\* the state updates of a component that has been torn down
Tick(iv) ==
    /\ iv \in intervals
    /\ IF unmounted THEN UNCHANGED vars ELSE Becomes(OnTick(State, iv))

\* the parent renders the dashboard with another `reports` array
ReportsChanged(rs) ==
    /\ Alive /\ rs # reports
    /\ Becomes(Render(State, rs, TRUE, filters, timeline, isPlaying))

\* import("leaflet") resolves: leafletRef.current = L; setMounted(true)
LeafletLoaded ==
    /\ Alive /\ ~mounted
    /\ Becomes([State EXCEPT !.mounted = TRUE, !.thrown = "none"])

ExportCSV ==
    /\ Alive
    /\ Becomes([State EXCEPT !.thrown =
           IF ExportCSVThrows(filteredReports) THEN "RangeError" ELSE "none"])

ExportPDF ==
    /\ Alive
    /\ Becomes([State EXCEPT !.thrown = "none"])

\* the component is torn down: the play-loop effect's cleanup runs
Unmount ==
    /\ Alive
    /\ Becomes([State EXCEPT !.unmounted = TRUE,
                             !.intervals = ClearInterval(intervals, cleanupId),
                             !.cleanupId = 0, !.thrown = "none"])

---------------------------------------------------------------------------
(* The notification center.  An alert's id is a number: 1 and 2 for the    *)
(* items of the initial history, 100 + n for the n-th alert sent (the      *)
(* random ids of confirmSend are taken to be distinct).  Of the compose    *)
(* form only the title is kept: region, message and recipients are taken   *)
(* as filled in.                                                           *)

\* historyProp && historyProp.length ? historyProp : initialHistoryMock
initialHistoryMock ==
    << [id |-> 1, region |-> <<"c">>, title |-> <<"a">>, severity |-> "info",
        delivered |-> 3280, total |-> 3325, read |-> 1240,
        status |-> "delivered"],
       [id |-> 2, region |-> <<"a">>, title |-> <<"b">>, severity |-> "warning",
        delivered |-> 685, total |-> 720, read |-> 402,
        status |-> "partial"] >>

\* the component after construction
NotificationCenter ==
    [title |-> <<>>,
     confirm |-> [open |-> FALSE, severity |-> "none"],
     history |-> initialHistoryMock,
     timeouts |-> {},
     sent |-> 0]

\* String.prototype.includes
StringIncludes(hay, needle) ==
    \E j \in 0..(Len(hay) - Len(needle)) :
        SubSeq(hay, j + 1, j + Len(needle)) = needle

\* the updater of the history search Input's onChange, e.target.value = v
SearchHistory(v) ==
    LET q == ToLowerCase(v)
    IN IF q = <<>> THEN initialHistoryMock
       ELSE SelectSeq(initialHistoryMock, LAMBDA h :
                \/ StringIncludes(ToLowerCase(h.title), q)
                \/ StringIncludes(ToLowerCase(h.region), q))

\* canSend, with region, message and recipients filled in
canSend(n) == TrimNonEmpty(n.title)

\* the item confirmSend puts at the head of the history
NewItem(id, title, severity, total) ==
    [id |-> id, region |-> <<"c">>, title |-> title, severity |-> severity,
     delivered |-> 0, total |-> total, read |-> 0, status |-> "queued"]

\* the updater of the first setTimeout of confirmSend (800 ms)
MarkSending(history, id, total) ==
    [i \in 1..Len(history) |->
        IF history[i].id = id
        THEN [history[i] EXCEPT !.status = "sending",
                                !.delivered = total \div 5]
        ELSE history[i]]

\* the updater of the second setTimeout of confirmSend (2100 ms)
MarkDelivered(history, id, total) ==
    [i \in 1..Len(history) |->
        IF history[i].id = id
        THEN [history[i] EXCEPT !.status = "delivered",
                                !.delivered = total,
                                !.read = (total * 52) \div 100]
        ELSE history[i]]

\* u is due before t: timeouts of one delay fire in the order they were
\* set, and the 800 ms timeout of a send fires before the 2100 ms timeout
\* of that send and of every later one
DueBefore(u, t) ==
    \/ u.kind = t.kind /\ u.seq < t.seq
    \/ u.kind = "sending" /\ t.kind = "delivered" /\ u.seq <= t.seq

NotifBecomes(n) == notif' = n /\ UNCHANGED <<dashboard, mgmt>>

\* the title Input's onChange
SetTitle(v) ==
    /\ v # notif.title
    /\ NotifBecomes([notif EXCEPT !.title = v])

\* one of the three send Buttons
HandleSend(severity) ==
    /\ canSend(notif)
    /\ NotifBecomes([notif EXCEPT !.confirm = [open |-> TRUE,
                                               severity |-> severity]])

\* the confirm Button of the dialog, onSend absent or resolved
ConfirmSend(total) ==
    /\ notif.confirm.open
    /\ notif.sent < MaxSends
    /\ LET seq == notif.sent + 1
           id == 100 + seq
           newItem == NewItem(id, notif.title, notif.confirm.severity, total)
       IN NotifBecomes(
              [notif EXCEPT
                  !.confirm = [open |-> FALSE, severity |-> "none"],
                  !.history = <<newItem>> \o @,
                  !.timeouts = @ \cup
                      {[id |-> id, total |-> total, kind |-> "sending",
                        seq |-> seq],
                       [id |-> id, total |-> total, kind |-> "delivered",
                        seq |-> seq]},
                  !.sent = seq,
                  !.title = <<>>])

\* the confirm Button of the dialog, onSend rejected: return before the item
ConfirmSendRejected ==
    /\ notif.confirm.open
    /\ NotifBecomes([notif EXCEPT
           !.confirm = [open |-> FALSE, severity |-> "none"]])

\* a pending timeout of confirmSend fires
TimeoutFires(t) ==
    /\ t \in notif.timeouts
    /\ \A u \in notif.timeouts : ~DueBefore(u, t)
    /\ NotifBecomes(
           [notif EXCEPT
               !.timeouts = @ \ {t},
               !.history = IF t.kind = "sending"
                           THEN MarkSending(@, t.id, t.total)
                           ELSE MarkDelivered(@, t.id, t.total)])

\* the history search Input's onChange
TypeSearch(v) ==
    NotifBecomes([notif EXCEPT !.history = SearchHistory(v)])

---------------------------------------------------------------------------
(* The report management screen.  A report's id is its position in data.   *)

\* type HazardStatus of HazardReportManagement.tsx
BulkStatuses == {"new", "in_review", "verified", "dismissed"}

\* the component after construction over initialData; selected holds the
\* ids whose entry of the `selected` record is true; a bulk call in flight
\* carries the ids and newStatus its continuation closes over (and, for
\* reference, the data as they were when the action began)
HazardReportManagement(initialData) ==
    [data |-> initialData, selected |-> {}, pending |-> {}]

\* prev.map((r) => (ids.includes(r.id) ? { ...r, status } : r))
SetStatusOf(data, ids, status) ==
    [i \in 1..Len(data) |->
        IF data[i].id \in ids THEN [data[i] EXCEPT !.status = status]
        ELSE data[i]]

MgmtBecomes(m) == mgmt' = m /\ UNCHANGED <<dashboard, notif>>

\* a row Checkbox's onCheckedChange
ToggleSelected(id) ==
    MgmtBecomes([mgmt EXCEPT !.selected =
        IF id \in @ THEN @ \ {id} ELSE @ \cup {id}])

\* applyBulkStatus up to its await: the optimistic update
ApplyBulkStatus(newStatus) ==
    /\ mgmt.selected # {}
    /\ Cardinality(mgmt.pending) < MaxPending
    /\ MgmtBecomes([mgmt EXCEPT
           !.data = SetStatusOf(@, mgmt.selected, newStatus),
           !.pending = @ \cup {[ids |-> mgmt.selected,
                                newStatus |-> newStatus,
                                before |-> mgmt.data]}])

\* onStatusChange resolves: nothing more is done
BulkResolved(p) ==
    /\ p \in mgmt.pending
    /\ MgmtBecomes([mgmt EXCEPT !.pending = @ \ {p}])

\* onStatusChange rejects: the catch block
BulkRejected(p) ==
    /\ p \in mgmt.pending
    /\ MgmtBecomes([mgmt EXCEPT
           !.data = SetStatusOf(@, p.ids, "in_review"),
           !.pending = @ \ {p}])

---------------------------------------------------------------------------
(* Report stores.  A report's id is its position in the store.             *)

Iso(ms) == [iso |-> TRUE, ms |-> ms]
NotADate == [iso |-> FALSE, ms |-> 0]

Report(lat, lng, type, status, source, timestamp, tags) ==
    [id |-> 0, lat |-> lat, lng |-> lng, type |-> type, status |-> status,
     source |-> source, timestamp |-> timestamp, tags |-> tags]

WithIds(s) == [i \in 1..Len(s) |-> [s[i] EXCEPT !.id = i]]

Stores(pool, n) == {WithIds(s) : s \in UNION {[1..k -> pool] : k \in 0..n}}

\* reports that differ in their timestamp alone: every whole hour up to
\* MaxHours, and one string that is not a date
TimePool ==
    {Report(10000, 10000, "flood", "verified", "citizen", Iso(h * SliderStep),
            <<>>) : h \in 0..MaxHours}
    \cup {Report(10000, 10000, "flood", "verified", "citizen", NotADate, <<>>)}

\* the same over the instants of the replay specifications
ReplayPool ==
    {Report(10000, 10000, "flood", "verified", "citizen", Iso(ms), <<>>) :
        ms \in {0, ShortSpan} \cup {h * SliderStep : h \in 1..MaxReplayHours}}
    \cup {Report(10000, 10000, "flood", "verified", "citizen", NotADate, <<>>)}

\* reports that differ in type, status and source
FieldPool ==
    {Report(10000, 10000, "flood", "unverified", "citizen", Iso(0), <<>>),
     Report(10000, 10000, "flood", "verified", "sensor", Iso(SliderStep), <<>>),
     Report(10000, 10000, "cyclone", "verified", "citizen", NotADate, <<>>),
     Report(10000, 10000, "cyclone", "under_review", "sensor", Iso(0), <<>>)}

\* reports that differ in their tags
TagPool ==
    {Report(10000, 10000, "flood", "verified", "citizen", Iso(0), tags) :
        tags \in {<<>>, <<<<"a">>>>, <<<<"B">>, <<"a">>>>, <<<<"a", "b">>>>}}

\* reports that differ in position and status: three in one cluster cell,
\* one in the next cluster cell of the same heat cell, one far away, one
\* south-west of the origin
GeoPool ==
    {Report(10000, 10000, "flood", "unverified", "citizen", Iso(0), <<>>),
     Report(10010, 10010, "flood", "verified", "citizen", Iso(0), <<>>),
     Report(10005, 10005, "flood", "under_review", "citizen", Iso(0), <<>>),
     Report(10000, 10070, "flood", "verified", "citizen", Iso(0), <<>>),
     Report(50000, 50000, "flood", "false_alarm", "citizen", Iso(0), <<>>),
     Report(0 - 10, 0 - 10, "flood", "verified", "citizen", Iso(0), <<>>)}

TimeStores == Stores(TimePool, MaxReports)
FieldStores == Stores(FieldPool, MaxReports)
TagStores == Stores(TagPool, MaxTagged)
GeoStores == Stores(GeoPool, MaxReports)
ReplayStores == Stores(ReplayPool, MaxReplayReports)

\* The stores the parent hands over next in the replay specifications: the
\* store with one report of the pool appended, or with one report taken out.
StoreEdits(rs) ==
    {WithIds(Append(rs, r)) : r \in IF Len(rs) < MaxReplayReports
                                     THEN ReplayPool ELSE {}}
    \cup {WithIds(SubSeq(rs, 1, i - 1) \o SubSeq(rs, i + 1, Len(rs))) :
              i \in 1..Len(rs)}

\* reports at the two ends of a temporal domain one slider step wide, and
\* one whose timestamp is not a date
SyncPool ==
    {Report(10000, 10000, "flood", "verified", "citizen", Iso(ms), <<>>) :
        ms \in {0, SliderStep}}
    \cup {Report(10000, 10000, "flood", "verified", "citizen", NotADate, <<>>)}

SyncStores == Stores(SyncPool, MaxReplayReports)

\* the stores the parent hands over next, over the reports of SyncPool
SyncEdits(rs) ==
    {WithIds(Append(rs, r)) : r \in IF Len(rs) < MaxReplayReports
                                     THEN SyncPool ELSE {}}
    \cup {WithIds(SubSeq(rs, 1, i - 1) \o SubSeq(rs, i + 1, Len(rs))) :
              i \in 1..Len(rs)}

\* the characters typed into the tags Input
TagChars == {"a", "B", ",", " "}

StatusChoices == {"all", "unverified", "under_review", "verified", "false_alarm"}

---------------------------------------------------------------------------
(* Specifications. *)

DashboardAs(s) ==
    /\ reports = s.reports
    /\ filters = s.filters
    /\ timeline = s.timeline
    /\ isPlaying = s.isPlaying
    /\ mounted = s.mounted
    /\ intervals = s.intervals
    /\ cleanupId = s.cleanupId
    /\ emitted = s.emitted
    /\ thrown = s.thrown
    /\ unmounted = s.unmounted

\* the dashboard as s, next to a notification center and a report
\* management screen that have just been constructed
StartsAs(s) ==
    /\ DashboardAs(s)
    /\ notif = NotificationCenter
    /\ mgmt = HazardReportManagement(<<>>)

Init ==
    \E rs \in TimeStores \cup FieldStores \cup TagStores \cup GeoStores :
        StartsAs(Mount(rs))

Next ==
    \/ \E v \in {"all"} \cup uniqueTypes(reports) : SetHazardType(v)
    \/ \E v \in StatusChoices : SetStatus(v)
    \/ \E v \in {"all"} \cup uniqueSources(reports) : SetSource(v)
    \/ ToggleHeatmap
    \/ ToggleClustering
    \/ \E c \in TagChars : TypeTagChar(c)
    \/ DeleteTagChar
    \/ \E lo, hi \in SliderValues(timeDomain) : SetTimeRange(lo, hi)
    \/ \E t0 \in SliderValues(timeDomain) : Scrub(t0)
    \/ JumpLatest
    \/ TogglePlay
    \/ \E iv \in intervals : Tick(iv)
    \/ \E rs \in StoreEdits(reports) : ReportsChanged(rs)
    \/ LeafletLoaded
    \/ ExportCSV
    \/ ExportPDF
    \/ Unmount

\* the whole dashboard
Spec == Init /\ [][Next]_vars

\* the three selects over stores that differ in type, status and source
InitFields == \E rs \in FieldStores : StartsAs(Mount(rs))
NextFields ==
    \/ \E v \in {"all"} \cup uniqueTypes(reports) : SetHazardType(v)
    \/ \E v \in StatusChoices : SetStatus(v)
    \/ \E v \in {"all"} \cup uniqueSources(reports) : SetSource(v)
SpecFields == InitFields /\ [][NextFields]_vars

\* the time range and the cursor over stores that differ in timestamp
InitTime == \E rs \in TimeStores : StartsAs(Mount(rs))
NextTime ==
    \/ \E lo, hi \in SliderValues(timeDomain) : SetTimeRange(lo, hi)
    \/ \E t0 \in SliderValues(timeDomain) : Scrub(t0)
    \/ JumpLatest
SpecTime == InitTime /\ [][NextTime]_vars

\* the tag query over stores that differ in tags
InitTags == \E rs \in TagStores : StartsAs(Mount(rs))
NextTags ==
    \/ \E c \in TagChars : TypeTagChar(c)
    \/ DeleteTagChar
SpecTags == InitTags /\ [][NextTags]_vars

\* the map layers over stores that differ in position
InitLayers == \E rs \in GeoStores : StartsAs(Mount(rs))
NextLayers ==
    \/ ToggleHeatmap
    \/ ToggleClustering
    \/ LeafletLoaded
    \/ \E v \in StatusChoices : SetStatus(v)
SpecLayers == InitLayers /\ [][NextLayers]_vars

\* timeline replay, with the store edited by the parent and the exports
InitReplay == \E rs \in ReplayStores : StartsAs(Mount(rs))
NextReplay ==
    \/ TogglePlay
    \/ \E iv \in intervals : Tick(iv)
    \/ \E t0 \in SliderValues(timeDomain) : Scrub(t0)
    \/ JumpLatest
    \/ \E rs \in StoreEdits(reports) : ReportsChanged(rs)
    \/ ExportCSV
    \/ ExportPDF
    \/ Unmount
SpecReplay == InitReplay /\ [][NextReplay]_vars

\* Playback left alone: the user has scrubbed to the start of the domain and
\* pressed Play, and from then on only the timer acts.  The browser fires an
\* interval that has not been cleared, hence the weak fairness.
PlayingFromMin(rs) ==
    LET d == TimeDomain(rs)
    IN OnPlayClick(SetTimeline(Mount(rs), d.min))
InitPlayback ==
    \E rs \in ReplayStores :
        /\ ~TimeDomain(rs).isNull
        /\ StartsAs(PlayingFromMin(rs))
NextPlayback == \E iv \in intervals : Tick(iv)
SpecPlayback ==
    InitPlayback /\ [][NextPlayback]_vars /\ WF_vars(NextPlayback)

\* the filter state and the cursor under the user's hands, the replay timer
\* and the parent's store edits together
InitSync == \E rs \in SyncStores : StartsAs(Mount(rs))
NextSync ==
    \/ \E lo, hi \in SliderValues(timeDomain) : SetTimeRange(lo, hi)
    \/ ToggleHeatmap
    \/ \E t0 \in SliderValues(timeDomain) : Scrub(t0)
    \/ JumpLatest
    \/ TogglePlay
    \/ \E iv \in intervals : Tick(iv)
    \/ \E rs \in SyncEdits(reports) : ReportsChanged(rs)
SpecSync == InitSync /\ [][NextSync]_vars

\* the notification center: compose, confirm, the two progress timeouts of
\* each send and the history search.  The browser fires a timeout that is
\* due, hence the weak fairness.
TitlesTyped == {<<>>, <<"a">>}
SearchesTyped == {<<>>, <<"A">>, <<"z">>}
TotalsDrawn == {15000, 3500}
AlertSeverity == {"emergency", "warning", "info"}
NextTimeout == \E t \in notif.timeouts : TimeoutFires(t)
InitNotify == StartsAs(Mount(<<>>))
NextNotify ==
    \/ \E v \in TitlesTyped : SetTitle(v)
    \/ \E severity \in AlertSeverity : HandleSend(severity)
    \/ \E total \in TotalsDrawn : ConfirmSend(total)
    \/ ConfirmSendRejected
    \/ NextTimeout
    \/ \E v \in SearchesTyped : TypeSearch(v)
SpecNotify == InitNotify /\ [][NextNotify]_vars /\ WF_vars(NextTimeout)

\* the report management screen: selection and bulk status actions over
\* every initialData of up to MaxBulkReports reports
BulkData ==
    UNION {{[i \in 1..k |-> [id |-> i, status |-> f[i]]] :
                f \in [1..k -> BulkStatuses]} : k \in 0..MaxBulkReports}
InitBulk ==
    /\ DashboardAs(Mount(<<>>))
    /\ notif = NotificationCenter
    /\ \E initialData \in BulkData : mgmt = HazardReportManagement(initialData)
NextBulk ==
    \/ \E i \in 1..Len(mgmt.data) : ToggleSelected(i)
    \/ \E newStatus \in BulkStatuses : ApplyBulkStatus(newStatus)
    \/ \E p \in mgmt.pending : BulkResolved(p)
    \/ \E p \in mgmt.pending : BulkRejected(p)
SpecBulk == InitBulk /\ [][NextBulk]_vars

---------------------------------------------------------------------------
(* Properties of the filter evaluator. *)

SelectsDefault ==
    filters.hazardType = "all" /\ filters.status = "all" /\ filters.source = "all"

TimeDefault ==
    /\ filters.timeStart = timeDomain.min
    /\ filters.timeEnd = timeDomain.max
    /\ timeline = timeDomain.max

HasUnparseable(rs) == \E i \in 1..Len(rs) : ~rs[i].timestamp.iso

\* C1: with every filter at its default (the three selects "all", no tag
\* query, the time range the whole temporal domain) and the cursor at the
\* domain's maximum, the filtered sequence is the report store itself: the
\* same reports in the same order.
C1_DefaultIsIdentity ==
    (SelectsDefault /\ filters.tagsQuery = <<>> /\ TimeDefault)
        => filteredReports = reports

\* a default view of a store of several reports, of different instants and
\* with a timestamp that does not parse: all of them are shown
C1_Witness ==
    /\ SelectsDefault /\ filters.tagsQuery = <<>> /\ TimeDefault
    /\ Len(reports) >= 3
    /\ timeDomain.min < timeDomain.max
    /\ HasUnparseable(reports)
    /\ filteredReports = reports

\* C3: with the other filters at their defaults and the cursor at the
\* domain's maximum, the reports with a timestamp t that the filter returns
\* are exactly those with timeStart <= t <= timeEnd, both bounds inclusive,
\* in store order.  (Stated over the reports whose timestamp parses: the
\* claim's t.)
C3_RangeInclusive ==
    (SelectsDefault /\ filters.tagsQuery = <<>> /\ ~timeDomain.isNull
        /\ timeline = timeDomain.max)
        => SelectSeq(filteredReports, LAMBDA r : r.timestamp.iso) =
               SelectSeq(reports, LAMBDA r :
                   /\ r.timestamp.iso
                   /\ filters.timeStart <= r.timestamp.ms
                   /\ r.timestamp.ms <= filters.timeEnd)

\* C4: with one of hazardType, status and source set to a value and
\* everything else at its default, the filtered sequence is exactly the
\* sub-sequence of the reports whose field equals that value.
C4_SingleFieldExact ==
    (filters.tagsQuery = <<>> /\ TimeDefault) =>
        /\ (filters.hazardType # "all" /\ filters.status = "all"
                /\ filters.source = "all")
            => filteredReports =
                   SelectSeq(reports, LAMBDA r : r.type = filters.hazardType)
        /\ (filters.hazardType = "all" /\ filters.status # "all"
                /\ filters.source = "all")
            => filteredReports =
                   SelectSeq(reports, LAMBDA r : r.status = filters.status)
        /\ (filters.hazardType = "all" /\ filters.status = "all"
                /\ filters.source # "all")
            => filteredReports =
                   SelectSeq(reports, LAMBDA r : r.source = filters.source)

\* a status filter alone that keeps some reports and omits others
C4_Witness ==
    /\ filters.hazardType = "all" /\ filters.source = "all"
    /\ filters.status = "verified"
    /\ filters.tagsQuery = <<>> /\ TimeDefault
    /\ Len(filteredReports) = 2
    /\ Len(reports) = 3

\* C10: when the cursor is set, the filtered sequence is the reports that
\* pass the filter without a cursor and whose timestamp is <= the cursor.
C10_CursorComposes ==
    timeline # Undefined =>
        filteredReports =
            SelectSeq(FilterReports(reports, filters, Undefined), LAMBDA r :
                r.timestamp.iso /\ r.timestamp.ms <= timeline)

---------------------------------------------------------------------------
(* Properties of the bucketing engines. *)

RECURSIVE SumLabels(_, _)
SumLabels(ms, n) == IF n = 0 THEN 0 ELSE SumLabels(ms, n - 1) + ms[n].label

\* the filtered reports that fall into the cell `key` of the grid `grid`
InCell(key, grid) ==
    SelectSeq(filteredReports, LAMBDA r :
        r.lng \div grid = key[1] /\ r.lat \div grid = key[2])

ClusterCells ==
    {<<filteredReports[i].lng \div ClusterGrid,
       filteredReports[i].lat \div ClusterGrid>> : i \in 1..Len(filteredReports)}

HeatCells ==
    {<<filteredReports[i].lng \div HeatGrid,
       filteredReports[i].lat \div HeatGrid>> : i \in 1..Len(filteredReports)}

ClustersDrawn == filters.clustering /\ mounted

\* C5: the cluster engine partitions the filtered sequence: every filtered
\* report is in the membership list of exactly one grid cell, and the member
\* counts of the cluster and individual markers drawn add up to the number
\* of filtered reports.
C5_ClusteringPartitions ==
    LET bs == ClusterBuckets(filteredReports, Len(filteredReports))
    IN /\ \A i \in 1..Len(filteredReports) :
              Cardinality({k \in 1..Len(bs) :
                  \E j \in 1..Len(bs[k].items) :
                      bs[k].items[j] = filteredReports[i]}) = 1
       /\ \A k \in 1..Len(bs) : \A j \in 1..Len(bs[k].items) :
              Includes(filteredReports, bs[k].items[j])
       /\ ClustersDrawn =>
              /\ SumLabels(markers, Len(markers)) = Len(filteredReports)
              /\ \A i \in 1..Len(filteredReports) :
                     Cardinality({k \in 1..Len(markers) :
                         Includes(markers[k].members, filteredReports[i].id)}) = 1

\* clusters drawn over three filtered reports in two cells
C5_Witness ==
    /\ ClustersDrawn
    /\ Len(filteredReports) = 3
    /\ Len(markers) = 2
    /\ \E k \in 1..2 : markers[k].label = 2

\* C6: with the heatmap on and a non-empty filtered sequence, there is one
\* heat point per non-empty heat cell, its weight is the cell's report count
\* divided by the largest count of any cell, so the largest weight is
\* exactly 1 and no weight is negative.
C6_HeatWeightsNormalised ==
    (filters.heatmap /\ Len(filteredReports) > 0) =>
        LET maxCount ==
                CHOOSE m \in {Len(InCell(c, HeatGrid)) : c \in HeatCells} :
                    \A c \in HeatCells : Len(InCell(c, HeatGrid)) <= m
        IN /\ Len(heatPoints) = Cardinality(HeatCells)
           /\ \A c \in HeatCells : \E k \in 1..Len(heatPoints) :
                  /\ heatPoints[k].lng = c[1] * HeatGrid + HeatGrid \div 2
                  /\ heatPoints[k].lat = c[2] * HeatGrid + HeatGrid \div 2
                  /\ heatPoints[k].weight.num = Len(InCell(c, HeatGrid))
                  /\ heatPoints[k].weight.den = maxCount
           /\ \E k \in 1..Len(heatPoints) :
                  heatPoints[k].weight.num = heatPoints[k].weight.den
           /\ \A k \in 1..Len(heatPoints) :
                  /\ heatPoints[k].weight.den > 0
                  /\ heatPoints[k].weight.num >= 0
                  /\ heatPoints[k].weight.num <= heatPoints[k].weight.den

\* the heatmap on over cells of different density: a weight of 1 and a
\* weight below 1
C6_Witness ==
    /\ filters.heatmap
    /\ Len(heatPoints) = 2
    /\ \E k \in 1..2 : heatPoints[k].weight.num < heatPoints[k].weight.den
    /\ \E k \in 1..2 : heatPoints[k].weight.num = heatPoints[k].weight.den

\* C7: with clusters drawn, every non-empty cluster cell has exactly one
\* marker: the individual marker of its report, at the report's position,
\* when the cell has one member, and a cluster marker at the cell's centre
\* showing the member count when it has two or more.
C7_MarkerPerCell ==
    ClustersDrawn =>
        /\ Len(markers) = Cardinality(ClusterCells)
        /\ \A c \in ClusterCells :
               LET members == InCell(c, ClusterGrid)
               IN \E k \in 1..Len(markers) :
                      /\ markers[k].key = c
                      /\ markers[k].members = Ids(members)
                      /\ IF Len(members) = 1
                         THEN /\ markers[k].kind = "marker"
                              /\ markers[k].lat = members[1].lat
                              /\ markers[k].lng = members[1].lng
                         ELSE /\ markers[k].kind = "cluster"
                              /\ markers[k].label = Len(members)
                              /\ markers[k].lat = c[2] * ClusterGrid + ClusterGrid \div 2
                              /\ markers[k].lng = c[1] * ClusterGrid + ClusterGrid \div 2

\* the scenario of the specification: reports at (10, 10), (10.01, 10.01)
\* and (50, 50) give a cluster marker showing 2 and an individual marker
C7_Witness ==
    /\ ClustersDrawn
    /\ Len(reports) = 3 /\ filteredReports = reports
    /\ reports[1].lat = 10000 /\ reports[1].lng = 10000
    /\ reports[2].lat = 10010 /\ reports[2].lng = 10010
    /\ reports[3].lat = 50000 /\ reports[3].lng = 50000
    /\ Len(markers) = 2
    /\ markers[1].kind = "cluster" /\ markers[1].label = 2
    /\ markers[2].kind = "marker" /\ markers[2].members = <<3>>

---------------------------------------------------------------------------
(* Properties of the tag filter. *)

\* every query that can be typed
Queries == UNION {[1..k -> TagChars] : k \in 0..MaxQueryLen}

\* The token set of a query as the specification defines it: the maximal
\* runs of characters other than commas and spaces, lowercased.
TokenSet(q) ==
    LET sep(i) == q[i] = "," \/ q[i] = " "
    IN {[k \in 1..(j - i + 1) |->
            IF q[i + k - 1] = "A" THEN "a"
            ELSE IF q[i + k - 1] = "B" THEN "b" ELSE q[i + k - 1]] :
        <<i, j>> \in {p \in (1..Len(q)) \X (1..Len(q)) :
            /\ p[1] <= p[2]
            /\ \A m \in p[1]..p[2] : ~sep(m)
            /\ (p[1] = 1 \/ sep(p[1] - 1))
            /\ (p[2] = Len(q) \/ sep(p[2] + 1))}}

TokensOf == [q \in Queries |-> TokenSet(q)]

QueriesWith ==
    [ts \in {TokensOf[q] : q \in Queries} |-> {q \in Queries : TokensOf[q] = ts}]

\* the queries with the token set of q
SameTokens(q) == QueriesWith[TokensOf[q]]

\* C8: two tag queries with the same token set (whatever the order of the
\* tokens, the separators between them and their case) give the same
\* filtered sequence.
C8_TagQueryOrderFree ==
    \A q2 \in SameTokens(filters.tagsQuery) :
        FilterReports(reports, [filters EXCEPT !.tagsQuery = q2], timeline)
            = filteredReports

\* a query of two tokens, which has a reordered twin, over a report that
\* carries both tags
C8_Witness ==
    /\ Cardinality(TokenSet(filters.tagsQuery)) = 2
    /\ \E q2 \in SameTokens(filters.tagsQuery) :
           /\ Len(q2) = Len(filters.tagsQuery)
           /\ ToLowerCase(q2)[1] # ToLowerCase(filters.tagsQuery)[1]
    /\ Len(reports) = 1
    /\ Len(reports[1].tags) = 2
    /\ filteredReports = reports

---------------------------------------------------------------------------
(* Properties of the replay. *)

\* C9: with an empty report store the temporal domain is the empty
\* sentinel, the filtered sequence is empty, no replay timer is scheduled
\* and the Play button is not there to be pressed (so no tick moves the
\* cursor), and the last operation has not thrown.
C9_EmptyStore ==
    reports = <<>> =>
        /\ timeDomain = NullDomain
        /\ filteredReports = <<>>
        /\ intervals = {}
        /\ ~ENABLED TogglePlay
        /\ ~ENABLED (\E iv \in intervals : Tick(iv))
        /\ thrown = "none"

\* the store emptied under a running replay: the playing flag and the
\* cursor are left over from the store before
C9_Witness ==
    /\ reports = <<>>
    /\ isPlaying
    /\ timeline # Undefined
    /\ ~unmounted

\* C2: playback left alone from cursor = domainMin: no tick moves the cursor
\* back, the cursor never passes domainMax, a tick that leaves the cursor at
\* domainMax leaves the replay stopped, and eventually the cursor is at
\* domainMax and the replay stopped for good, with no timer left.
C2_ReplayRunsToEnd ==
    /\ [][timeline' >= timeline]_vars
    /\ [](timeline <= timeDomain.max)
    /\ [][timeline' = timeDomain.max => ~isPlaying']_vars
    /\ <>[](timeline = timeDomain.max /\ ~isPlaying /\ intervals = {})

\* a replay that has run from domainMin over a domain of positive width to
\* domainMax and stopped
C2_Witness ==
    /\ timeDomain.min < timeDomain.max
    /\ timeline = timeDomain.max
    /\ ~isPlaying
    /\ intervals = {}

---------------------------------------------------------------------------
(* Properties of timestamps that do not parse. *)

\* the tests of the filter callback that do not look at the timestamp
NonTemporalPass(r) ==
    /\ TypePass(filters, r)
    /\ StatusPass(filters, r)
    /\ SourcePass(filters, r)
    /\ TagsMatch(r, filters.tagsQuery)

\* C11: a report whose timestamp does not parse is left out of the filtered
\* sequence whenever timeStart or timeEnd is set, and is in it, if it passes
\* the tests that are not about time, when neither bound is set.  (A bound is
\* taken as set here only when it is an instant other than the epoch, the
\* case in which the code itself treats it as set.)
C11_UnparseableExcluded ==
    \A i \in 1..Len(reports) :
        ~reports[i].timestamp.iso =>
            /\ (Truthy(filters.timeStart) \/ Truthy(filters.timeEnd))
                   => ~Includes(filteredReports, reports[i])
            /\ (filters.timeStart = Undefined /\ filters.timeEnd = Undefined)
                   => (Includes(filteredReports, reports[i])
                          <=> NonTemporalPass(reports[i]))

---------------------------------------------------------------------------
(* Properties of tag matching. *)

\* the report carries every token as a whole tag, whatever the case
CarriesEvery(r, tokens) ==
    \A tok \in tokens : \E i \in 1..Len(r.tags) : ToLowerCase(r.tags[i]) = tok

\* C12: when the tag query has a token, the tag filter passes exactly the
\* reports whose tags, lowercased, contain every token as a whole tag (a tag
\* that merely contains the token does not count), so a report without tags
\* is left out.
C12_TagsWholeMatch ==
    LET tokens == TokensOf[filters.tagsQuery]
        others == FilterReports(reports, [filters EXCEPT !.tagsQuery = <<>>],
                                timeline)
    IN tokens # {} =>
           /\ filteredReports =
                  SelectSeq(others, LAMBDA r : CarriesEvery(r, tokens))
           /\ \A i \in 1..Len(reports) :
                  reports[i].tags = <<>> => ~Includes(filteredReports, reports[i])

\* the token "a" against a report whose only tag is "ab": left out
C12_Witness ==
    /\ TokensOf[filters.tagsQuery] = {<<"a">>}
    /\ Len(reports) = 1
    /\ reports[1].tags = << <<"a", "b">> >>
    /\ filteredReports = <<>>

---------------------------------------------------------------------------
(* Properties of the temporal domain. *)

\* the instants of the reports whose timestamp parses
ParsedInstants(rs) ==
    {rs[i].timestamp.ms : i \in {j \in 1..Len(rs) : rs[j].timestamp.iso}}

\* C13: the temporal domain is the least and the greatest of the instants
\* that parse; a timestamp that does not parse moves neither, and when none
\* parses the domain is the empty sentinel.
C13_DomainOverParsed ==
    LET parsed == ParsedInstants(reports)
    IN IF parsed = {}
       THEN timeDomain = NullDomain
       ELSE /\ ~timeDomain.isNull
            /\ timeDomain.min \in parsed /\ timeDomain.max \in parsed
            /\ \A t \in parsed : timeDomain.min <= t /\ t <= timeDomain.max

\* a store in which one timestamp does not parse and every other is later
\* than the epoch: the domain starts after the epoch, and the cursor has
\* been put at its end
C13_Witness ==
    /\ HasUnparseable(reports)
    /\ ~timeDomain.isNull
    /\ timeDomain.min > 0
    /\ emitted.timeline = timeDomain.max

---------------------------------------------------------------------------
(* Properties of the replay steps. *)

\* C14: a tick while playing, with the cursor at c and
\* step = max(1, floor((domainMax - domainMin) / 120)): when c + step
\* reaches or passes domainMax the cursor becomes domainMax and the replay
\* stops, otherwise the cursor becomes c + step and the replay goes on.
C14_TickRule ==
    [][(isPlaying /\ ~unmounted /\ NextPlayback) =>
          LET width == timeDomain.max - timeDomain.min
              step == IF width \div 120 >= 1 THEN width \div 120 ELSE 1
          IN IF timeline + step >= timeDomain.max
             THEN timeline' = timeDomain.max /\ ~isPlaying'
             ELSE timeline' = timeline + step /\ isPlaying']_vars

\* a replay under way after ticks that did not reach the end: the cursor is
\* a whole number of steps past domainMin, short of domainMax
C14_Witness ==
    /\ isPlaying /\ ~unmounted
    /\ timeDomain.min < timeline /\ timeline < timeDomain.max
    /\ intervals # {}

\* C15: once the replay has left Playing (paused, stopped at the end, or the
\* component torn down) no timer is left, so no tick changes the cursor or
\* the playing flag; after teardown neither changes at all; and stopping
\* again (clearing the timer already cleared, tearing down a replay already
\* stopped) changes nothing and raises no error.
C15_NoTickAfterStop ==
    /\ []((~isPlaying \/ unmounted) => (intervals = {} /\ ~ENABLED NextPlayback))
    /\ [][unmounted => UNCHANGED <<timeline, isPlaying>>]_vars
    /\ [](~isPlaying => ClearInterval(intervals, cleanupId) = intervals)
    /\ [][(~isPlaying /\ Unmount) =>
             (UNCHANGED <<timeline, isPlaying, intervals>> /\ thrown' = "none")]_vars

\* the component torn down in the middle of a replay: the cursor is short of
\* domainMax, the playing flag is still up, and the timer is gone
C15_Witness ==
    /\ unmounted /\ isPlaying
    /\ timeDomain.min < timeline /\ timeline < timeDomain.max
    /\ intervals = {}

\* C16: whatever the order of play, pause, scrub, jump to latest, ticks and
\* changes of the store, at most one replay timer is outstanding.
C16_OneTimer == Cardinality(intervals) <= 1

\* a replay under way, the cursor short of domainMax: one timer, the one
\* the last run of the effect has set
C16_Witness ==
    /\ Cardinality(intervals) = 1
    /\ isPlaying /\ ~unmounted
    /\ timeline < timeDomain.max
    /\ \E iv \in intervals : iv.id = cleanupId

\* C17: the play / pause button flips the playing flag and leaves the cursor
\* where it is, on a pause and on a resume alike; the timer a resume sets
\* advances from that cursor: its first tick takes the cursor one step on
\* from the paused value (or to domainMax when the step reaches it).
C17_PauseKeepsCursor ==
    /\ [][TogglePlay => (timeline' = timeline /\ isPlaying' = ~isPlaying)]_vars
    /\ [][(TogglePlay /\ ~isPlaying) =>
             /\ Cardinality(intervals') = 1
             /\ \A iv \in intervals' :
                    (OnTick(State, iv).timeline)' =
                        IF timeline + iv.step >= timeDomain.max
                        THEN timeDomain.max ELSE timeline + iv.step]_vars

\* a replay paused part of the way: the cursor where the last tick left it
C17_Witness ==
    /\ ~isPlaying /\ ~unmounted
    /\ timeDomain.min < timeline /\ timeline < timeDomain.max
    /\ intervals = {}

\* C18: dragging the timeline slider to a value sets the cursor to that
\* value, whether the replay is playing or stopped, and leaves the playing
\* flag and the filters as they are.
C18_ScrubSetsCursorOnly ==
    [][\A t0 \in SliderValues(timeDomain) :
          Scrub(t0) => (timeline' = t0 /\ isPlaying' = isPlaying
                           /\ filters' = filters)]_vars

\* the slider dragged back to the start of a domain of several slider
\* positions while the replay is playing
C18_Witness ==
    /\ isPlaying /\ ~unmounted
    /\ Cardinality(SliderValues(timeDomain)) >= 2
    /\ timeline = timeDomain.min
    /\ intervals # {}

\* C19: the jump-to-latest button puts the cursor at domainMax wherever it
\* was and leaves the playing flag as it is; when the replay is playing, the
\* one timer then pending leaves the cursor at domainMax and stops the
\* replay at its next tick.
C19_JumpToLatest ==
    [][JumpLatest =>
          /\ timeline' = timeDomain.max
          /\ isPlaying' = isPlaying
          /\ isPlaying =>
                 /\ Cardinality(intervals') = 1
                 /\ \A iv \in intervals' :
                        /\ (OnTick(State, iv).timeline)' = timeDomain.max
                        /\ ~(OnTick(State, iv).isPlaying)'
                        /\ (OnTick(State, iv).intervals)' = {}]_vars

\* a replay playing over a domain of positive width with the cursor at
\* domainMax, as a jump leaves it: the pending tick will stop it there
C19_Witness ==
    /\ isPlaying /\ ~unmounted
    /\ timeDomain.min < timeDomain.max
    /\ timeline = timeDomain.max
    /\ Cardinality(intervals) = 1

\* C20: the replay goes from stopped to playing only by the play button and
\* only over a non-empty temporal domain; while the domain is empty the
\* button is not there to act and no timer is scheduled, and a stopped
\* replay stays stopped with its cursor unchanged for as long as the
\* domain stays empty.
C20_PlayNeedsDomain ==
    /\ [][(~isPlaying /\ isPlaying') => (~timeDomain.isNull /\ TogglePlay)]_vars
    /\ [](timeDomain.isNull => (~ENABLED TogglePlay /\ intervals = {}))
    /\ [][(timeDomain.isNull /\ ~isPlaying) =>
             /\ ~isPlaying'
             /\ intervals' = {}
             /\ timeDomain'.isNull => timeline' = timeline]_vars

\* a stopped replay whose store has lost every timestamp that parses: the
\* domain is empty, the cursor is left over from the domain before
C20_Witness ==
    /\ reports # <<>>
    /\ timeDomain.isNull
    /\ ~isPlaying /\ ~unmounted
    /\ timeline # Undefined
    /\ intervals = {}

---------------------------------------------------------------------------
(* Properties of error handling. *)

\* C21: a report whose timestamp does not parse makes no operation fail:
\* whatever operation ran last (the temporal domain and the filter are
\* computed at every render, the buckets with them, and the CSV and PDF
\* exports run over the filtered sequence), it raised no error, and every
\* such report that passes the tests that are not about time is in the
\* filtered sequence.
C21_UnparseableNeverFails ==
    HasUnparseable(reports) =>
        /\ thrown = "none"
        /\ \A i \in 1..Len(reports) :
               (~reports[i].timestamp.iso /\ NonTemporalPass(reports[i]))
                   => Includes(filteredReports, reports[i])

---------------------------------------------------------------------------
(* Properties of the status colours. *)

Statuses == {StatusOrder[i] : i \in 1..Len(StatusOrder)}

---------------------------------------------------------------------------
(* Properties of the filter state and its callbacks. *)

\* C23: whenever a step changes the filter state, onFilterChange has last
\* been called with the filter state as it is after the step, and whenever a
\* step changes the cursor, onTimelineChange has last been called with the
\* new cursor; so in every state the last filter state emitted is the
\* current one and, once there is a cursor, the last cursor emitted is the
\* current one.
C23_CallbacksFollowState ==
    /\ [][filters' # filters => emitted'.filters = filters']_vars
    /\ [][timeline' # timeline => emitted'.timeline = timeline']_vars
    /\ [](emitted.filters = filters)
    /\ [](timeline # Undefined => emitted.timeline = timeline)

\* the time range narrowed and the heatmap switched on by the user, and the
\* cursor part of the way through a replay: both callbacks have the
\* current values
C23_Witness ==
    /\ ~timeDomain.isNull
    /\ filters.timeStart # timeDomain.min
    /\ filters.heatmap
    /\ timeDomain.min < timeline /\ timeline < timeDomain.max
    /\ emitted.filters = filters
    /\ emitted.timeline = timeline

---------------------------------------------------------------------------
(* Properties of the length of a replay. *)

\* The ticks a replay left alone from cursor = domainMin has taken while it
\* is still playing: every one of them moved the cursor by one whole step.
TicksTaken == (timeline - timeDomain.min) \div PlayStep(timeDomain)

\* C25: playback left alone from cursor = domainMin reaches domainMax and
\* stops after no more than 121 ticks, whatever the width of the domain: a
\* replay that is still playing, and so has at least one more tick to take,
\* has taken at most 120.
C25_AtMost121Ticks == isPlaying => TicksTaken <= 120

---------------------------------------------------------------------------
(* Properties of the dominant status. *)

\* the member lists at hand: those of the cluster engine's buckets, and the
\* filtered sequence taken as one list
MemberLists ==
    LET bs == ClusterBuckets(filteredReports, Len(filteredReports))
    IN {bs[k].items : k \in 1..Len(bs)} \cup {filteredReports}

\* the place of a status in the fixed order
PlaceOf(s) == CHOOSE i \in 1..Len(StatusOrder) : StatusOrder[i] = s

\* the members of a list that have the status s
MembersWith(items, s) == SelectSeq(items, LAMBDA r : r.status = s)

\* C26: the dominant status of a non-empty member list is a status that no
\* other status outnumbers, and of the statuses with that many members it
\* is the first in the order unverified, under_review, verified,
\* false_alarm.
C26_DominantStatus ==
    \A items \in MemberLists :
        items # <<>> =>
            LET d == dominantStatusIn(items)
            IN /\ d \in Statuses
               /\ \A s \in Statuses :
                      Len(MembersWith(items, s)) <= Len(MembersWith(items, d))
               /\ \A s \in Statuses :
                      Len(MembersWith(items, s)) = Len(MembersWith(items, d))
                          => PlaceOf(d) <= PlaceOf(s)

\* a cluster drawn over one report under review and one verified: a tie,
\* and the cluster has the colour of under_review, the earlier of the two
C26_Witness ==
    /\ ClustersDrawn
    /\ \E k \in 1..Len(markers) :
           /\ markers[k].kind = "cluster"
           /\ markers[k].label = 2
           /\ {reports[markers[k].members[j]].status : j \in 1..2}
                  = {"under_review", "verified"}
           /\ markers[k].color = statusToColor("under_review")

---------------------------------------------------------------------------
(* Properties of the cursor's range. *)

\* C27: whenever the temporal domain is not empty the cursor is set and
\* lies within it: domainMin <= cursor <= domainMax.
C27_CursorInDomain ==
    ~timeDomain.isNull =>
        /\ timeline # Undefined
        /\ timeDomain.min <= timeline
        /\ timeline <= timeDomain.max

\* the cursor dragged down to the start of a domain that begins after the
\* epoch, with a replay playing from there
C27_Witness ==
    /\ timeDomain.min > 0
    /\ timeDomain.min < timeDomain.max
    /\ timeline = timeDomain.min
    /\ isPlaying /\ ~unmounted

---------------------------------------------------------------------------
(* Properties of Play at the end of the domain. *)

\* C28: the play button pressed while the replay is stopped with the cursor
\* at domainMax makes the replay playing and leaves the cursor and the
\* filtered sequence as they are, with one timer pending; and a tick of a
\* replay that is playing with the cursor at domainMax leaves the cursor at
\* domainMax, stops the replay and leaves the filtered sequence as it is.
C28_PlayAtEnd ==
    /\ [][(TogglePlay /\ ~isPlaying /\ timeline = timeDomain.max) =>
             /\ isPlaying'
             /\ timeline' = timeline
             /\ filteredReports' = filteredReports
             /\ Cardinality(intervals') = 1]_vars
    /\ [][(NextPlayback /\ isPlaying /\ ~unmounted
                /\ timeline = timeDomain.max) =>
             /\ timeline' = timeline
             /\ ~isPlaying'
             /\ intervals' = {}
             /\ filteredReports' = filteredReports]_vars

\* Play pressed at the end of a domain of positive width, over a store
\* shown in full: the replay is playing, and the tick now pending will
\* leave the cursor and the filtered sequence as they are and stop it
C28_Witness ==
    /\ isPlaying /\ ~unmounted
    /\ timeDomain.min < timeDomain.max
    /\ timeline = timeDomain.max
    /\ Len(reports) = MaxReplayReports
    /\ filteredReports = reports
    /\ \E iv \in intervals :
           /\ OnTick(State, iv).timeline = timeline
           /\ ~OnTick(State, iv).isPlaying
           /\ FilterReports(reports, filters, OnTick(State, iv).timeline)
                  = filteredReports

---------------------------------------------------------------------------
(* Properties of the delivery history. *)

\* the ids of the alerts that confirmed sends have added to the history
SentIds == {100 + n : n \in 1..notif.sent}

\* the status the history shows for an alert ("absent" when it has no item)
StatusIn(history, id) ==
    IF \E i \in 1..Len(history) : history[i].id = id
    THEN history[CHOOSE i \in 1..Len(history) : history[i].id = id].status
    ELSE "absent"

\* C29: an alert that a confirmed send has added to the delivery history
\* stays in the history; its status only moves from queued to sending and
\* from sending to delivered; and it eventually is delivered with
\* delivered = total.
C29_AlertReachesDelivered ==
    /\ [](\A id \in SentIds : StatusIn(notif.history, id) # "absent")
    /\ [][\A id \in SentIds :
             \/ StatusIn(notif.history, id)' = StatusIn(notif.history, id)
             \/ /\ StatusIn(notif.history, id) = "queued"
                /\ StatusIn(notif.history, id)' = "sending"
             \/ /\ StatusIn(notif.history, id) = "sending"
                /\ StatusIn(notif.history, id)' = "delivered"]_vars
    /\ \A n \in 1..MaxSends :
           [](notif.sent >= n =>
                <>(\E i \in 1..Len(notif.history) :
                       /\ notif.history[i].id = 100 + n
                       /\ notif.history[i].status = "delivered"
                       /\ notif.history[i].delivered = notif.history[i].total))

---------------------------------------------------------------------------
(* Properties of the bulk status action. *)

\* C30: when onStatusChange rejects during a bulk status action, the status
\* of every report the action had selected becomes what it was before the
\* action, and the status of every other report stays as it is.
C30_BulkRevertRestores ==
    [][\A p \in mgmt.pending :
          BulkRejected(p) =>
              \A i \in 1..Len(mgmt.data) :
                  mgmt'.data[i].status =
                      IF mgmt.data[i].id \in p.ids
                      THEN p.before[i].status
                      ELSE mgmt.data[i].status]_vars


===========================================================================
